---- MODULE Spec2Model ----
(***************************************************************************)
(* State-machine model of the Pollyn dashboard front end:                  *)
(*   HistoryComponent   (post history list, search filter, delete, storage)*)
(*   DiscoverComponent  (mock discover feed, likes)                        *)
(*   DashboardComponent (modals, scroll lock, nav indicator)               *)
(*   AppRoutingModule   (the route table, as the router resolves a URL)    *)
(*   SequenceComponent  (scroll triggers of the intro sequence)            *)
(* A JavaScript string is a sequence of one-character strings.  An         *)
(* optional value (an object property that may be undefined, a storage key *)
(* that may be null) is None or Some(v).                                   *)
(***************************************************************************)
EXTENDS Integers, Sequences, FiniteSets, TLC

VARIABLES
    postHistory,      \* localStorage['postHistory']: None (null) or Some(text)
    history,          \* HistoryComponent.history
    filteredHistory,  \* HistoryComponent.filteredHistory: the identities (refs) of
                      \* the objects it holds, which are objects of history
    searchQuery,      \* HistoryComponent.searchQuery
    deletes,          \* number of confirmed deletes so far (bounded)
    histCall,         \* the last HistoryComponent call: operation, arguments, outcome
    discoverPosts,    \* DiscoverComponent.discoverPosts
    likeClicks,       \* number of likePost calls so far (bounded)
    discCall,         \* the last DiscoverComponent call: operation and index
    activeIndex,      \* DashboardComponent.activeIndex
    isLoggedIn,       \* DashboardComponent.isLoggedIn
    showProfile,      \* DashboardComponent.showProfile
    showLogin,        \* DashboardComponent.showLogin
    showSignup,       \* DashboardComponent.showSignup
    sectionOffsets,   \* DashboardComponent.sectionOffsets
    isClickScrolling, \* DashboardComponent.isClickScrolling
    scrollPending,    \* DashboardComponent.scrollPending
    navFound,         \* the cached indicator, tabs and nav container exist
    indicatorAt,      \* the tab the indicator is positioned at, -1 before
    bodyOverflow,     \* document.body.style.overflow: "" (not set) or "hidden"
    viewReady,        \* ngAfterViewInit has run
    frameCallbacks,   \* pending requestAnimationFrame callbacks
    unlockTimers,     \* pending 600 ms timers of navigateToSection
    initTimer,        \* the 200 ms timer of ngAfterViewInit is pending
    recalcTimers,     \* pending 300 ms timers of updateScrollLock
    dashCall,         \* the last DashboardComponent call
    requestedUrl,     \* the URL of the last navigation, as its path segments
    currentUrl,       \* that URL after the redirects applied so far
    navigating,       \* a navigation is being resolved
    activated,        \* the component in the router outlet: None or Some(name)
    slides,           \* SequenceComponent.slides (the QueryList's elements)
    triggers,         \* SequenceComponent.triggers
    scrollTriggers,   \* ScrollTrigger.getAll(): the triggers not yet killed
    runs,             \* number of initAnimations runs so far (bounded)
    sequenceFrames,   \* pending requestAnimationFrame callbacks of the component
    refreshTimers,    \* pending 120 ms ScrollTrigger.refresh timers
    subscribed,       \* ngAfterViewInit has subscribed to slides.changes
    destroyed         \* ngOnDestroy has run

histVars == <<postHistory, history, filteredHistory, searchQuery, deletes, histCall>>

discVars == <<discoverPosts, likeClicks, discCall>>

dashVars ==
    <<activeIndex, isLoggedIn, showProfile, showLogin, showSignup, sectionOffsets,
      isClickScrolling, scrollPending, navFound, indicatorAt, bodyOverflow,
      viewReady, frameCallbacks, unlockTimers, initTimer, recalcTimers, dashCall>>

routeVars == <<requestedUrl, currentUrl, navigating, activated>>

seqVars ==
    <<slides, triggers, scrollTriggers, runs, sequenceFrames, refreshTimers,
      subscribed, destroyed>>

vars == <<histVars, discVars, dashVars, routeVars, seqVars>>

----------------------------------------------------------------------------
(* Bounds                                                                  *)

\* longest post list found in storage at start
MaxPosts == 2
\* confirmed deletes explored in one behaviour
MaxDeletes == 2
\* the Math.random sequences explored are numbered 0..MaxSeed
MaxSeed == 3
\* likePost calls explored in one behaviour
MaxLikes == 3
\* unlock timers of navigateToSection pending at the same time
MaxTimers == 2
\* recalculation timers of updateScrollLock pending at the same time
MaxRecalcTimers == 1

----------------------------------------------------------------------------
(* Optional values and strings                                             *)

None == <<>>
Some(x) == <<x>>

\* o || '' for an optional string: undefined and '' both give ''
OrEmpty(o) == IF Len(o) = 0 THEN <<>> ELSE o[1]

lowerOf ==
    "A" :> "a" @@ "B" :> "b" @@ "C" :> "c" @@ "D" :> "d" @@ "E" :> "e" @@
    "F" :> "f" @@ "G" :> "g" @@ "H" :> "h" @@ "I" :> "i" @@ "J" :> "j" @@
    "K" :> "k" @@ "L" :> "l" @@ "M" :> "m" @@ "N" :> "n" @@ "O" :> "o" @@
    "P" :> "p" @@ "Q" :> "q" @@ "R" :> "r" @@ "S" :> "s" @@ "T" :> "t" @@
    "U" :> "u" @@ "V" :> "v" @@ "W" :> "w" @@ "X" :> "x" @@ "Y" :> "y" @@
    "Z" :> "z"

toLowerCase(s) ==
    [i \in 1..Len(s) |-> IF s[i] \in DOMAIN lowerOf THEN lowerOf[s[i]] ELSE s[i]]

RECURSIVE trimStart(_)
trimStart(s) ==
    IF Len(s) > 0 /\ Head(s) = " " THEN trimStart(Tail(s)) ELSE s

RECURSIVE trimEnd(_)
trimEnd(s) ==
    IF Len(s) > 0 /\ s[Len(s)] = " " THEN trimEnd(SubSeq(s, 1, Len(s) - 1)) ELSE s

trim(s) == trimEnd(trimStart(s))

\* Array.prototype.join(' ')
RECURSIVE joinSpace(_)
joinSpace(parts) ==
    IF Len(parts) = 0 THEN <<>>
    ELSE IF Len(parts) = 1 THEN parts[1]
    ELSE parts[1] \o <<" ">> \o joinSpace(Tail(parts))

\* String.prototype.includes
includes(s, q) ==
    \E i \in 0..(Len(s) - Len(q)) : \A j \in 1..Len(q) : s[i + j] = q[j]

digitChars == <<"0", "1", "2", "3", "4", "5", "6", "7", "8", "9">>

\* `${n}` for a non-negative integer n
RECURSIVE numberToString(_)
numberToString(n) ==
    IF n < 10 THEN <<digitChars[n + 1]>>
    ELSE numberToString(n \div 10) \o <<digitChars[(n % 10) + 1]>>

----------------------------------------------------------------------------
(* Post records.  In memory a post is an object with an identity (ref):    *)
(* Array.prototype.indexOf compares by identity.  JSON text carries no     *)
(* identity and no undefined property.                                     *)

PostFields == <<"title", "description", "caption", "date", "tags">>

EmptyObject ==
    [title |-> None, description |-> None, caption |-> None,
     date |-> None, tags |-> None]

\* an object allocated at position i of a freshly built array
Alloc(obj, i) ==
    [ref |-> i, title |-> obj.title, description |-> obj.description,
     caption |-> obj.caption, date |-> obj.date, tags |-> obj.tags]

AllocAll(objs) == [i \in 1..Len(objs) |-> Alloc(objs[i], i)]

\* the properties of a post without its identity
Content(post) ==
    [title |-> post.title, description |-> post.description,
     caption |-> post.caption, date |-> post.date, tags |-> post.tags]

Contents(posts) == [i \in 1..Len(posts) |-> Content(posts[i])]

\* the identities of the objects of an array
Refs(posts) == [i \in 1..Len(posts) |-> posts[i].ref]

----------------------------------------------------------------------------
(* JSON text: a sequence of tokens.  A member token is one "key":value     *)
(* pair of an object.                                                      *)

Tok(t) == [t |-> t, key |-> "", val |-> <<>>]
Member(k, v) == [t |-> "member", key |-> k, val |-> v]

RECURSIVE stringifyMembers(_, _)
stringifyMembers(post, k) ==
    IF k > Len(PostFields) THEN <<>>
    ELSE (IF Len(post[PostFields[k]]) = 0 THEN <<>>
          ELSE <<Member(PostFields[k], post[PostFields[k]][1])>>)
         \o stringifyMembers(post, k + 1)

stringifyObject(post) ==
    <<Tok("{")>> \o stringifyMembers(post, 1) \o <<Tok("}")>>

RECURSIVE stringifyElements(_)
stringifyElements(posts) ==
    IF Len(posts) = 0 THEN <<>>
    ELSE IF Len(posts) = 1 THEN stringifyObject(posts[1])
    ELSE stringifyObject(posts[1]) \o <<Tok(",")>> \o stringifyElements(Tail(posts))

\* JSON.stringify of an array of posts
JSONstringify(posts) ==
    <<Tok("[")>> \o stringifyElements(posts) \o <<Tok("]")>>

ParseFail == [ok |-> FALSE, value |-> <<>>, next |-> 0]

RECURSIVE parseMembers(_, _, _)
parseMembers(text, i, obj) ==
    IF i > Len(text) THEN ParseFail
    ELSE IF text[i].t = "}" THEN [ok |-> TRUE, value |-> obj, next |-> i + 1]
    ELSE IF text[i].t = "member"
         THEN parseMembers(text, i + 1,
                           [obj EXCEPT ![text[i].key] = Some(text[i].val)])
    ELSE ParseFail

RECURSIVE parseElements(_, _, _)
parseElements(text, i, acc) ==
    IF i > Len(text) \/ text[i].t # "{" THEN ParseFail
    ELSE LET o == parseMembers(text, i + 1, EmptyObject)
         IN  IF ~o.ok \/ o.next > Len(text) THEN ParseFail
             ELSE IF text[o.next].t = ","
                  THEN parseElements(text, o.next + 1, Append(acc, o.value))
             ELSE IF text[o.next].t = "]" /\ o.next = Len(text)
                  THEN [ok |-> TRUE, value |-> Append(acc, o.value), next |-> o.next + 1]
             ELSE ParseFail

\* JSON.parse of a text: ok = FALSE stands for the SyntaxError it throws
JSONparse(text) ==
    IF Len(text) < 2 \/ text[1].t # "[" THEN ParseFail
    ELSE IF text[2].t = "]"
         THEN (IF Len(text) = 2 THEN [ok |-> TRUE, value |-> <<>>, next |-> 3]
               ELSE ParseFail)
    ELSE parseElements(text, 2, <<>>)

----------------------------------------------------------------------------
(* HistoryComponent                                                        *)

PlaceholderCount == 10

samplePostPrefix == <<"S","a","m","p","l","e"," ","P","o","s","t"," ">>
sampleDescriptionPrefix ==
    <<"T","h","i","s"," ","i","s"," ","a"," ","s","a","m","p","l","e"," ",
      "d","e","s","c","r","i","p","t","i","o","n"," ","f","o","r"," ",
      "p","o","s","t"," ","#">>
exampleCaption ==
    <<"E","x","a","m","p","l","e"," ","c","a","p","t","i","o","n"," ",
      "t","e","x","t",".">>
demoTag == <<"D","e","m","o">>
historyTag == <<"H","i","s","t","o","r","y">>
tagPrefix == <<"T","a","g">>

\* new Date().toISOString(): one sample instant
nowISO == <<"2","0","2","5","-","0","1","-","0","1","T","0","0",":","0","0",
            ":","0","0",".","0","0","0","Z">>

\* element i (0-based) of getPlaceholderHistory
placeholderPost(i) ==
    [title |-> Some(samplePostPrefix \o numberToString(i + 1)),
     description |-> Some(sampleDescriptionPrefix \o numberToString(i + 1) \o <<".">>),
     caption |-> Some(IF i % 2 = 0 THEN exampleCaption ELSE <<>>),
     date |-> Some(nowISO),
     tags |-> Some(<<demoTag, historyTag, tagPrefix \o numberToString(i % 5)>>)]

getPlaceholderHistory ==
    AllocAll([i \in 1..PlaceholderCount |-> placeholderPost(i - 1)])

Loaded(list) == [value |-> list, threw |-> FALSE]

LoadNoCatch(stored) ==
    IF Len(stored) = 0 \/ Len(stored[1]) = 0 THEN Loaded(getPlaceholderHistory)
    ELSE LET r == JSONparse(stored[1])
         IN  IF r.ok THEN Loaded(AllocAll(r.value))
             ELSE [value |-> <<>>, threw |-> TRUE]

LoadEmptyAsAbsent(stored) ==
    IF Len(stored) = 0 \/ Len(stored[1]) = 0 THEN Loaded(getPlaceholderHistory)
    ELSE LET r == JSONparse(stored[1])
         IN  IF r.ok /\ Len(r.value) > 0 THEN Loaded(AllocAll(r.value))
             ELSE Loaded(getPlaceholderHistory)

\* loadHistory: the list left in this.history for a stored value (null, '' or a
\* text), and whether an error escapes; a failing JSON.parse is caught
loadHistory(stored) ==
    IF Len(stored) = 0 \/ Len(stored[1]) = 0 THEN Loaded(getPlaceholderHistory)
    ELSE LET r == JSONparse(stored[1])
         IN  IF r.ok THEN Loaded(AllocAll(r.value))
             ELSE Loaded(getPlaceholderHistory)

\* the text a post is searched in
searchText(post) ==
    toLowerCase(joinSpace(
        <<OrEmpty(post.title), OrEmpty(post.description), OrEmpty(post.caption)>>
        \o OrEmpty(post.tags)))

FilterEmptyGivesNone(list, query) ==
    LET q == trim(toLowerCase(query))
    IN  IF Len(q) = 0 THEN <<>>
        ELSE SelectSeq(list, LAMBDA post : includes(searchText(post), q))

\* applyFilter: the list assigned to this.filteredHistory
filterPosts(list, query) ==
    LET q == trim(toLowerCase(query))
    IN  IF Len(q) = 0 THEN list
        ELSE SelectSeq(list, LAMBDA post : includes(searchText(post), q))

\* Array.prototype.indexOf: the first (0-based) position holding the object
\* with identity ref, or -1
indexOf(list, ref) ==
    IF \E i \in 1..Len(list) : list[i].ref = ref
    THEN (CHOOSE i \in 1..Len(list) :
              list[i].ref = ref /\ \A j \in 1..(i - 1) : list[j].ref # ref) - 1
    ELSE -1

\* Array.prototype.splice(start, 1) with a 0-based start; a negative start
\* counts from the end
splice1(list, start) ==
    LET n == Len(list)
        s == IF start < 0 THEN (IF n + start < 0 THEN 0 ELSE n + start)
             ELSE (IF start > n THEN n ELSE start)
    IN  SubSeq(list, 1, s) \o SubSeq(list, s + 2, n)

DeleteAtViewIndex(list, view, index) == splice1(list, index)

\* deletePost, confirmed: this.history after the splice
deleteFrom(list, view, index) ==
    splice1(list, indexOf(list, view[index + 1]))

----------------------------------------------------------------------------
(* Inputs of HistoryComponent                                              *)

sampleObjects ==
    { [title |-> Some(<<"a">>), description |-> Some(<<"b">>),
       caption |-> None, date |-> Some(nowISO), tags |-> None],
      [title |-> Some(<<"A", "b">>), description |-> Some(<<>>),
       caption |-> Some(<<>>), date |-> Some(nowISO),
       tags |-> Some(<< <<"a">>, <<"B">> >>)],
      [title |-> Some(<<"B">>), description |-> Some(<<"b", " ", "a">>),
       caption |-> Some(<<"A">>), date |-> Some(nowISO), tags |-> Some(<<>>)],
      [title |-> Some(<<"b">>), description |-> Some(<<"a">>),
       caption |-> None, date |-> Some(nowISO),
       tags |-> Some(<< <<"a", "b">> >>)] }

\* the post lists a well-formed stored text may hold
storedLists == UNION { [1..n -> sampleObjects] : n \in 0..MaxPosts }

wellFormedTexts == { JSONstringify(l) : l \in storedLists }

\* truncated or decapitated texts of the lists of at most one post: every
\* one of them fails to parse ('' is the empty text)
brokenTexts ==
    LET short == { JSONstringify(l) :
                     l \in UNION { [1..n -> sampleObjects] : n \in 0..1 } }
    IN  UNION { { SubSeq(t, 1, k) : k \in 0..(Len(t) - 1) } : t \in short }
        \cup { Tail(t) : t \in short }

storedValues ==
    {None} \cup { Some(t) : t \in wellFormedTexts \cup brokenTexts }

searchQueries ==
    { <<>>, <<" ">>, <<"A">>, <<"b", " ">>, <<"a", " ", "b">>, <<"1", " ", "T">> }

Call(op, index, confirmed, threw) ==
    [op |-> op, index |-> index, confirmed |-> confirmed, threw |-> threw]

----------------------------------------------------------------------------
(* The components share no state: a step of one leaves the others alone.   *)

discIdle ==
    /\ discoverPosts = <<>>
    /\ likeClicks = 0
    /\ discCall = [op |-> "constructor", index |-> 0]

histIdle ==
    /\ postHistory = None
    /\ history = <<>>
    /\ filteredHistory = <<>>
    /\ searchQuery = <<>>
    /\ deletes = 0
    /\ histCall = [op |-> "constructor", index |-> 0, confirmed |-> FALSE,
                   threw |-> FALSE]

\* what a DashboardComponent call logs: the operation, its index argument,
\* the window metrics it read, the modal flag it toggled (if any) with the
\* flag's value before the call, and, when the previous call toggled the same
\* flag, the flag's value before that previous call
DashCall(op, index, scrollY, innerHeight, toggled, before) ==
    [op |-> op, index |-> index, scrollY |-> scrollY, innerHeight |-> innerHeight,
     toggled |-> toggled, before |-> before,
     twice |-> toggled # "" /\ dashCall.toggled = toggled,
     before2 |-> toggled # "" /\ dashCall.toggled = toggled /\ dashCall.before]

dashIdle ==
    /\ activeIndex = 0
    /\ isLoggedIn = FALSE
    /\ showProfile = FALSE
    /\ showLogin = FALSE
    /\ showSignup = FALSE
    /\ sectionOffsets = <<>>
    /\ isClickScrolling = FALSE
    /\ scrollPending = FALSE
    /\ navFound = FALSE
    /\ indicatorAt = -1
    /\ bodyOverflow = ""
    /\ viewReady = FALSE
    /\ frameCallbacks = 0
    /\ unlockTimers = 0
    /\ initTimer = FALSE
    /\ recalcTimers = 0
    /\ dashCall = [op |-> "constructor", index |-> 0, scrollY |-> 0,
                   innerHeight |-> 0, toggled |-> "", before |-> FALSE,
                   twice |-> FALSE, before2 |-> FALSE]

routeIdle ==
    /\ requestedUrl = <<>>
    /\ currentUrl = <<>>
    /\ navigating = FALSE
    /\ activated = None

seqIdle ==
    /\ slides = <<>>
    /\ triggers = <<>>
    /\ scrollTriggers = {}
    /\ runs = 0
    /\ sequenceFrames = 0
    /\ refreshTimers = 0
    /\ subscribed = FALSE
    /\ destroyed = FALSE

histOnly == UNCHANGED <<discVars, dashVars, routeVars, seqVars>>

discOnly == UNCHANGED <<histVars, dashVars, routeVars, seqVars>>

dashOnly == UNCHANGED <<histVars, discVars, routeVars, seqVars>>

routeOnly == UNCHANGED <<histVars, discVars, dashVars, seqVars>>

seqOnly == UNCHANGED <<histVars, discVars, dashVars, routeVars>>

----------------------------------------------------------------------------
(* Operations of HistoryComponent                                          *)

\* a new component instance is constructed and initialised
ngOnInit ==
    LET l == loadHistory(postHistory)
    IN  /\ history' = l.value
        /\ filteredHistory' = IF l.threw THEN <<>> ELSE Refs(l.value)
        /\ searchQuery' = <<>>
        /\ histCall' = Call("ngOnInit", 0, FALSE, l.threw)
        /\ UNCHANGED <<postHistory, deletes>>
        /\ histOnly

\* the search box writes searchQuery
setSearchQuery ==
    \E s \in searchQueries :
        /\ histCall.op # "constructor"
        /\ s # searchQuery
        /\ searchQuery' = s
        /\ histCall' = Call("setSearchQuery", 0, FALSE, FALSE)
        /\ UNCHANGED <<postHistory, history, filteredHistory, deletes>>
        /\ histOnly

applyFilter ==
    /\ histCall.op # "constructor"
    /\ filteredHistory' = Refs(filterPosts(history, searchQuery))
    /\ histCall' = Call("applyFilter", 0, FALSE, FALSE)
    /\ UNCHANGED <<postHistory, history, searchQuery, deletes>>
    /\ histOnly

DeletePostWithoutRefilter ==
    \E index \in 0..(Len(filteredHistory) - 1) :
        /\ deletes < MaxDeletes
        /\ history' = deleteFrom(history, filteredHistory, index)
        /\ postHistory' = Some(JSONstringify(history'))
        /\ deletes' = deletes + 1
        /\ histCall' = Call("deletePost", index, TRUE, FALSE)
        /\ UNCHANGED <<filteredHistory, searchQuery>>
        /\ histOnly

deletePostConfirmed ==
    \E index \in 0..(Len(filteredHistory) - 1) :
        /\ deletes < MaxDeletes
        /\ history' = deleteFrom(history, filteredHistory, index)
        /\ postHistory' = Some(JSONstringify(history'))
        /\ filteredHistory' = Refs(filterPosts(history', searchQuery))
        /\ deletes' = deletes + 1
        /\ histCall' = Call("deletePost", index, TRUE, FALSE)
        /\ UNCHANGED searchQuery
        /\ histOnly

\* deletePost of any valid index with the prompt declined: nothing changes,
\* whatever the index
deletePostDeclined ==
    /\ Len(filteredHistory) > 0
    /\ histCall' = Call("deletePost", 0, FALSE, FALSE)
    /\ UNCHANGED <<postHistory, history, filteredHistory, searchQuery, deletes>>
    /\ histOnly

\* this.filteredHistory[index]: None stands for undefined (no such element)
postAt(view, index) ==
    IF index \in 0..(Len(view) - 1) THEN Some(view[index + 1]) ELSE None

\* viewPost(index), for the first index and for the first index past the end:
\* reading post.title of an undefined post throws a TypeError before the alert
viewPost ==
    \E index \in {0, Len(filteredHistory)} :
        /\ histCall.op # "constructor"
        /\ histCall' = Call("viewPost", index, FALSE,
                            Len(postAt(filteredHistory, index)) = 0)
        /\ UNCHANGED <<postHistory, history, filteredHistory, searchQuery, deletes>>
        /\ histOnly

\* deletePost(index) with no post at index: reading post.title throws a
\* TypeError before the prompt
deletePostNoPost ==
    \E index \in {Len(filteredHistory)} :
        /\ histCall.op # "constructor"
        /\ Len(postAt(filteredHistory, index)) = 0
        /\ histCall' = Call("deletePost", index, FALSE, TRUE)
        /\ UNCHANGED <<postHistory, history, filteredHistory, searchQuery, deletes>>
        /\ histOnly

InitHistory ==
    /\ postHistory \in storedValues
    /\ history = <<>>
    /\ filteredHistory = <<>>
    /\ searchQuery = <<>>
    /\ deletes = 0
    /\ histCall = Call("constructor", 0, FALSE, FALSE)
    /\ discIdle
    /\ dashIdle
    /\ routeIdle
    /\ seqIdle

NextHistory ==
    \/ ngOnInit
    \/ setSearchQuery
    \/ applyFilter
    \/ deletePostConfirmed
    \/ deletePostDeclined
    \/ viewPost
    \/ deletePostNoPost

SpecHistory == InitHistory /\ [][NextHistory]_vars

----------------------------------------------------------------------------
(* DiscoverComponent                                                       *)

DiscoverCount == 10

discoverTitlePrefix ==
    <<"D","i","s","c","o","v","e","r"," ","P","o","s","t"," ">>
userPrefix == <<"U","s","e","r"," ">>

\* string constants that no operation looks into are kept whole
discoverDescription ==
    "A fascinating post exploring AI, design, and creativity. Dive in to explore something new."
sampleImages ==
    <<"https://images.unsplash.com/photo-1507525428034-b723cf961d3e",
      "https://images.unsplash.com/photo-1522205408450-add114ad53fe",
      "https://images.unsplash.com/photo-1498050108023-c5249f4df085",
      "https://images.unsplash.com/photo-1506744038136-46273834b3fb">>

\* Math.random(): draw k (0-based) of sequence seed, in thousandths, 0..999
mathRandom(seed, k) == (seed * 999 + k * seed * 211 + k * k * seed * 73) % 1000

\* Math.floor(r * m) for a draw r given in thousandths
floorTimes(r, m) == (r * m) \div 1000

\* element i (0-based) of generateMockData; author is drawn before likes
mockPost(seed, i) ==
    [title |-> discoverTitlePrefix \o numberToString(i + 1),
     description |-> discoverDescription,
     author |-> userPrefix \o numberToString(floorTimes(mathRandom(seed, 2 * i), 50) + 1),
     likes |-> floorTimes(mathRandom(seed, 2 * i + 1), 1000),
     tags |-> <<"AI", "Design", "Trending", IF i % 2 = 0 THEN "Featured" ELSE "New">>,
     image |-> sampleImages[(i % Len(sampleImages)) + 1]]

generateMockData(seed) == [i \in 1..DiscoverCount |-> mockPost(seed, i - 1)]

LikeAlsoNext(posts, index) ==
    [j \in 1..Len(posts) |->
        IF j = index + 1 \/ j = index + 2
        THEN [posts[j] EXCEPT !.likes = @ + 1] ELSE posts[j]]

\* likePost: this.discoverPosts[index].likes++
likeAt(posts, index) ==
    [posts EXCEPT ![index + 1] = [@ EXCEPT !.likes = @ + 1]]

discoverNgOnInit ==
    \E seed \in 0..MaxSeed :
        /\ discoverPosts' = generateMockData(seed)
        /\ discCall' = [op |-> "ngOnInit", index |-> 0]
        /\ UNCHANGED likeClicks
        /\ discOnly

likePost ==
    \E index \in 0..(Len(discoverPosts) - 1) :
        /\ likeClicks < MaxLikes
        /\ discoverPosts' = likeAt(discoverPosts, index)
        /\ likeClicks' = likeClicks + 1
        /\ discCall' = [op |-> "likePost", index |-> index]
        /\ discOnly

InitDiscover ==
    /\ discIdle
    /\ histIdle
    /\ dashIdle
    /\ routeIdle
    /\ seqIdle

NextDiscover ==
    \/ discoverNgOnInit
    \/ likePost

SpecDiscover == InitDiscover /\ [][NextDiscover]_vars

----------------------------------------------------------------------------
(* DashboardComponent                                                      *)

navItems ==
    <<[name |-> "Home", target |-> "hero"],
      [name |-> "Create", target |-> "create"],
      [name |-> "History", target |-> "history"],
      [name |-> "Discover", target |-> "discover"],
      [name |-> "Profile", target |-> ""],
      [name |-> "Settings", target |-> ""]>>

\* the document at the time it is read: the offsetTop of each section
\* element, None for a section that is not in the document
pageLayouts ==
    { [hero |-> None, create |-> None, history |-> None, discover |-> None],
      [hero |-> Some(300), create |-> Some(1000), history |-> Some(1700),
       discover |-> Some(2400)],
      [hero |-> Some(0), create |-> None, history |-> Some(1600),
       discover |-> Some(2400)] }

\* window.scrollY and window.innerHeight at the time they are read
viewports ==
    { [scrollY |-> 0, innerHeight |-> 600], [scrollY |-> 800, innerHeight |-> 600],
      [scrollY |-> 767, innerHeight |-> 700], [scrollY |-> 2400, innerHeight |-> 700] }

\* calculateSectionOffsets: section?.offsetTop ?? 0 for every item with a target
calculateSectionOffsets(layout) ==
    LET items == SelectSeq(navItems, LAMBDA item : item.target # "")
    IN  [i \in 1..Len(items) |->
            [id |-> items[i].target,
             top |-> IF Len(layout[items[i].target]) = 0 THEN 0
                     ELSE layout[items[i].target][1]]]

\* updateIndicatorPosition: the tab the indicator is at afterwards
updateIndicatorPosition(found, at, index) == IF found THEN index ELSE at

\* updateScrollLock: the overflow style it leaves on the body
updateScrollLock(loggedIn) == IF ~loggedIn THEN "hidden" ELSE ""

ToggleOpens(flag) == TRUE

\* this.showX = !this.showX
toggle(flag) == ~flag

RECURSIVE scanUp(_, _, _, _)
scanUp(offsets, i, active, vp) ==
    IF i >= Len(offsets) THEN active
    ELSE IF 3 * vp.scrollY + vp.innerHeight >= 3 * offsets[i + 1].top THEN i
    ELSE scanUp(offsets, i + 1, active, vp)

HandleScrollFirstMatch(offsets, active, vp) == scanUp(offsets, 0, active, vp)

\* the loop of handleScroll from index i down: scrollY + innerHeight / 3 is
\* compared with the top, both sides times 3
RECURSIVE scanSections(_, _, _, _)
scanSections(offsets, i, active, vp) ==
    IF i < 0 THEN active
    ELSE IF 3 * vp.scrollY + vp.innerHeight >= 3 * offsets[i + 1].top THEN i
    ELSE scanSections(offsets, i - 1, active, vp)

\* handleScroll: activeIndex afterwards
handleScroll(offsets, active, vp) ==
    scanSections(offsets, Len(offsets) - 1, active, vp)

ngAfterViewInit ==
    /\ ~viewReady
    /\ viewReady' = TRUE
    /\ \E found \in BOOLEAN :
          /\ navFound' = found
          /\ indicatorAt' = updateIndicatorPosition(found, indicatorAt, activeIndex)
    /\ initTimer' = TRUE
    /\ bodyOverflow' = updateScrollLock(isLoggedIn)
    /\ recalcTimers' = IF isLoggedIn THEN recalcTimers + 1 ELSE recalcTimers
    /\ dashCall' = DashCall("ngAfterViewInit", 0, 0, 0, "", FALSE)
    /\ UNCHANGED <<activeIndex, isLoggedIn, showProfile, showLogin, showSignup,
                   sectionOffsets, isClickScrolling, scrollPending, frameCallbacks,
                   unlockTimers>>
    /\ dashOnly

\* setTimeout(() => this.calculateSectionOffsets(), 200) fires
initTimerFires ==
    /\ initTimer
    /\ initTimer' = FALSE
    /\ \E layout \in pageLayouts : sectionOffsets' = calculateSectionOffsets(layout)
    /\ dashCall' = DashCall("initTimer", 0, 0, 0, "", FALSE)
    /\ UNCHANGED <<activeIndex, isLoggedIn, showProfile, showLogin, showSignup,
                   isClickScrolling, scrollPending, navFound, indicatorAt,
                   bodyOverflow, viewReady, frameCallbacks, unlockTimers,
                   recalcTimers>>
    /\ dashOnly

\* the 300 ms timer of updateScrollLock fires
recalcTimerFires ==
    /\ recalcTimers > 0
    /\ recalcTimers' = recalcTimers - 1
    /\ \E layout \in pageLayouts : sectionOffsets' = calculateSectionOffsets(layout)
    /\ indicatorAt' = updateIndicatorPosition(navFound, indicatorAt, activeIndex)
    /\ dashCall' = DashCall("recalcTimer", 0, 0, 0, "", FALSE)
    /\ UNCHANGED <<activeIndex, isLoggedIn, showProfile, showLogin, showSignup,
                   isClickScrolling, scrollPending, navFound, bodyOverflow,
                   viewReady, frameCallbacks, unlockTimers, initTimer>>
    /\ dashOnly

onResize ==
    /\ viewReady
    /\ \E layout \in pageLayouts : sectionOffsets' = calculateSectionOffsets(layout)
    /\ dashCall' = DashCall("onResize", 0, 0, 0, "", FALSE)
    /\ UNCHANGED <<activeIndex, isLoggedIn, showProfile, showLogin, showSignup,
                   isClickScrolling, scrollPending, navFound, indicatorAt,
                   bodyOverflow, viewReady, frameCallbacks, unlockTimers,
                   initTimer, recalcTimers>>
    /\ dashOnly

\* navigateToSection(target, index) of the Profile item: toggleProfile only
navigateToProfile ==
    \E index \in 0..(Len(navItems) - 1) :
        /\ viewReady
        /\ navItems[index + 1].name = "Profile"
        /\ showProfile' = toggle(showProfile)
        /\ dashCall' = DashCall("navigateToSection", index, 0, 0, "profile", showProfile)
        /\ UNCHANGED <<activeIndex, isLoggedIn, showLogin, showSignup,
                       sectionOffsets, isClickScrolling, scrollPending, navFound,
                       indicatorAt, bodyOverflow, viewReady, frameCallbacks,
                       unlockTimers, initTimer, recalcTimers>>
        /\ dashOnly

\* navigateToSection of an item without target, or whose section is not in
\* the document: setActive only
navigateWithoutScroll ==
    \E index \in 0..(Len(navItems) - 1) :
        /\ viewReady
        /\ navItems[index + 1].name # "Profile"
        /\ activeIndex' = index
        /\ indicatorAt' = updateIndicatorPosition(navFound, indicatorAt, index)
        /\ dashCall' = DashCall("navigateToSection", index, 0, 0, "", FALSE)
        /\ UNCHANGED <<isLoggedIn, showProfile, showLogin, showSignup,
                       sectionOffsets, isClickScrolling, scrollPending, navFound,
                       bodyOverflow, viewReady, frameCallbacks, unlockTimers,
                       initTimer, recalcTimers>>
        /\ dashOnly

\* navigateToSection of an item whose section exists: setActive, lock scroll
\* tracking, start the smooth scroll and the 600 ms unlock timer
navigateAndScroll ==
    \E index \in 0..(Len(navItems) - 1) :
        /\ viewReady
        /\ navItems[index + 1].name # "Profile"
        /\ navItems[index + 1].target # ""
        /\ unlockTimers < MaxTimers
        /\ activeIndex' = index
        /\ indicatorAt' = updateIndicatorPosition(navFound, indicatorAt, index)
        /\ isClickScrolling' = TRUE
        /\ unlockTimers' = unlockTimers + 1
        /\ dashCall' = DashCall("navigateToSection:scroll", index, 0, 0, "", FALSE)
        /\ UNCHANGED <<isLoggedIn, showProfile, showLogin, showSignup,
                       sectionOffsets, scrollPending, navFound, bodyOverflow,
                       viewReady, frameCallbacks, initTimer, recalcTimers>>
        /\ dashOnly

\* setTimeout(() => (this.isClickScrolling = false), 600) fires
unlockTimerFires ==
    /\ unlockTimers > 0
    /\ unlockTimers' = unlockTimers - 1
    /\ isClickScrolling' = FALSE
    /\ dashCall' = DashCall("unlockTimer", 0, 0, 0, "", FALSE)
    /\ UNCHANGED <<activeIndex, isLoggedIn, showProfile, showLogin, showSignup,
                   sectionOffsets, scrollPending, navFound, indicatorAt,
                   bodyOverflow, viewReady, frameCallbacks, initTimer,
                   recalcTimers>>
    /\ dashOnly

OnWindowScrollUnthrottled ==
    /\ viewReady
    /\ ~(isClickScrolling \/ ~isLoggedIn)
    /\ scrollPending' = TRUE
    /\ frameCallbacks' = frameCallbacks + 1
    /\ dashCall' = DashCall("onWindowScroll:scheduled", 0, 0, 0, "", FALSE)
    /\ UNCHANGED <<activeIndex, isLoggedIn, showProfile, showLogin, showSignup,
                   sectionOffsets, isClickScrolling, navFound, indicatorAt,
                   bodyOverflow, viewReady, unlockTimers, initTimer, recalcTimers>>
    /\ dashOnly

\* a scroll event that schedules a frame callback
onWindowScroll ==
    /\ viewReady
    /\ ~(isClickScrolling \/ ~isLoggedIn)
    /\ ~scrollPending
    /\ scrollPending' = TRUE
    /\ frameCallbacks' = frameCallbacks + 1
    /\ dashCall' = DashCall("onWindowScroll:scheduled", 0, 0, 0, "", FALSE)
    /\ UNCHANGED <<activeIndex, isLoggedIn, showProfile, showLogin, showSignup,
                   sectionOffsets, isClickScrolling, navFound, indicatorAt,
                   bodyOverflow, viewReady, unlockTimers, initTimer, recalcTimers>>
    /\ dashOnly

\* a scroll event that returns early
onWindowScrollIgnored ==
    /\ viewReady
    /\ (isClickScrolling \/ ~isLoggedIn) \/ scrollPending
    /\ dashCall' = DashCall("onWindowScroll:ignored", 0, 0, 0, "", FALSE)
    /\ UNCHANGED <<activeIndex, isLoggedIn, showProfile, showLogin, showSignup,
                   sectionOffsets, isClickScrolling, scrollPending, navFound,
                   indicatorAt, bodyOverflow, viewReady, frameCallbacks,
                   unlockTimers, initTimer, recalcTimers>>
    /\ dashOnly

\* the requestAnimationFrame callback: handleScroll, then scrollPending = false
frameCallbackRuns ==
    \E vp \in viewports :
        /\ frameCallbacks > 0
        /\ frameCallbacks' = frameCallbacks - 1
        /\ activeIndex' = handleScroll(sectionOffsets, activeIndex, vp)
        /\ indicatorAt' = IF activeIndex' # activeIndex
                          THEN updateIndicatorPosition(navFound, indicatorAt, activeIndex')
                          ELSE indicatorAt
        /\ scrollPending' = FALSE
        /\ dashCall' = DashCall("handleScroll", 0, vp.scrollY, vp.innerHeight, "", FALSE)
        /\ UNCHANGED <<isLoggedIn, showProfile, showLogin, showSignup,
                       sectionOffsets, isClickScrolling, navFound, bodyOverflow,
                       viewReady, unlockTimers, initTimer, recalcTimers>>
        /\ dashOnly

toggleProfile ==
    /\ viewReady
    /\ showProfile' = toggle(showProfile)
    /\ dashCall' = DashCall("toggleProfile", 0, 0, 0, "profile", showProfile)
    /\ UNCHANGED <<activeIndex, isLoggedIn, showLogin, showSignup, sectionOffsets,
                   isClickScrolling, scrollPending, navFound, indicatorAt,
                   bodyOverflow, viewReady, frameCallbacks, unlockTimers,
                   initTimer, recalcTimers>>
    /\ dashOnly

closeProfile ==
    /\ viewReady
    /\ showProfile' = FALSE
    /\ dashCall' = DashCall("closeProfile", 0, 0, 0, "", FALSE)
    /\ UNCHANGED <<activeIndex, isLoggedIn, showLogin, showSignup, sectionOffsets,
                   isClickScrolling, scrollPending, navFound, indicatorAt,
                   bodyOverflow, viewReady, frameCallbacks, unlockTimers,
                   initTimer, recalcTimers>>
    /\ dashOnly

toggleLogin ==
    /\ viewReady
    /\ showLogin' = toggle(showLogin)
    /\ dashCall' = DashCall("toggleLogin", 0, 0, 0, "login", showLogin)
    /\ UNCHANGED <<activeIndex, isLoggedIn, showProfile, showSignup, sectionOffsets,
                   isClickScrolling, scrollPending, navFound, indicatorAt,
                   bodyOverflow, viewReady, frameCallbacks, unlockTimers,
                   initTimer, recalcTimers>>
    /\ dashOnly

closeLogin ==
    /\ viewReady
    /\ recalcTimers < MaxRecalcTimers
    /\ showLogin' = FALSE
    /\ isLoggedIn' = TRUE
    /\ bodyOverflow' = updateScrollLock(isLoggedIn')
    /\ recalcTimers' = recalcTimers + 1
    /\ dashCall' = DashCall("closeLogin", 0, 0, 0, "", FALSE)
    /\ UNCHANGED <<activeIndex, showProfile, showSignup, sectionOffsets,
                   isClickScrolling, scrollPending, navFound, indicatorAt,
                   viewReady, frameCallbacks, unlockTimers, initTimer>>
    /\ dashOnly

toggleSignup ==
    /\ viewReady
    /\ showSignup' = toggle(showSignup)
    /\ dashCall' = DashCall("toggleSignup", 0, 0, 0, "signup", showSignup)
    /\ UNCHANGED <<activeIndex, isLoggedIn, showProfile, showLogin, sectionOffsets,
                   isClickScrolling, scrollPending, navFound, indicatorAt,
                   bodyOverflow, viewReady, frameCallbacks, unlockTimers,
                   initTimer, recalcTimers>>
    /\ dashOnly

closeSignup ==
    /\ viewReady
    /\ recalcTimers < MaxRecalcTimers
    /\ showSignup' = FALSE
    /\ isLoggedIn' = TRUE
    /\ bodyOverflow' = updateScrollLock(isLoggedIn')
    /\ recalcTimers' = recalcTimers + 1
    /\ dashCall' = DashCall("closeSignup", 0, 0, 0, "", FALSE)
    /\ UNCHANGED <<activeIndex, showProfile, showLogin, sectionOffsets,
                   isClickScrolling, scrollPending, navFound, indicatorAt,
                   viewReady, frameCallbacks, unlockTimers, initTimer>>
    /\ dashOnly

HandleLogoutWithoutLock ==
    /\ viewReady
    /\ isLoggedIn' = FALSE
    /\ showProfile' = FALSE
    /\ dashCall' = DashCall("handleLogout", 0, 0, 0, "", FALSE)
    /\ UNCHANGED <<activeIndex, showLogin, showSignup, sectionOffsets,
                   isClickScrolling, scrollPending, navFound, indicatorAt,
                   bodyOverflow, viewReady, frameCallbacks, unlockTimers,
                   initTimer, recalcTimers>>
    /\ dashOnly

\* handleLogout: isLoggedIn = false, closeProfile, updateScrollLock, scroll to top
handleLogout ==
    /\ viewReady
    /\ isLoggedIn' = FALSE
    /\ showProfile' = FALSE
    /\ bodyOverflow' = updateScrollLock(isLoggedIn')
    /\ dashCall' = DashCall("handleLogout", 0, 0, 0, "", FALSE)
    /\ UNCHANGED <<activeIndex, showLogin, showSignup, sectionOffsets,
                   isClickScrolling, scrollPending, navFound, indicatorAt,
                   viewReady, frameCallbacks, unlockTimers, initTimer,
                   recalcTimers>>
    /\ dashOnly

InitDashboard ==
    /\ dashIdle
    /\ histIdle
    /\ discIdle
    /\ routeIdle
    /\ seqIdle

NextDashboard ==
    \/ ngAfterViewInit
    \/ initTimerFires
    \/ recalcTimerFires
    \/ onResize
    \/ navigateToProfile
    \/ navigateWithoutScroll
    \/ navigateAndScroll
    \/ unlockTimerFires
    \/ onWindowScroll
    \/ onWindowScrollIgnored
    \/ frameCallbackRuns
    \/ toggleProfile
    \/ closeProfile
    \/ toggleLogin
    \/ closeLogin
    \/ toggleSignup
    \/ closeSignup
    \/ handleLogout

SpecDashboard == InitDashboard /\ [][NextDashboard]_vars

----------------------------------------------------------------------------
(* AppRoutingModule: the route table and the router's resolution of a URL. *)
(* A URL is the sequence of its path segments; '' is the empty sequence.   *)

MaxSegments == 2

Route(path, pathMatch, redirectTo, component) ==
    [path |-> path, pathMatch |-> pathMatch, redirectTo |-> redirectTo,
     component |-> component]

RoutesWildcardToDashboard ==
    << Route("", "full", Some("intro"), None),
       Route("intro", "prefix", None, Some("IntroComponent")),
       Route("sequence", "prefix", None, Some("SequenceComponent")),
       Route("dashboard", "prefix", None, Some("DashboardComponent")),
       Route("**", "prefix", Some("dashboard"), None) >>

\* const routes: a route without pathMatch matches by prefix
routes ==
    << Route("", "full", Some("intro"), None),
       Route("intro", "prefix", None, Some("IntroComponent")),
       Route("sequence", "prefix", None, Some("SequenceComponent")),
       Route("dashboard", "prefix", None, Some("DashboardComponent")),
       Route("**", "prefix", Some("intro"), None) >>

\* the segments of a route's path
pathParts(route) == IF route.path = "" THEN <<>> ELSE <<route.path>>

\* how many leading segments of the URL the route's path consumes, -1 when
\* the path does not match: '**' consumes every segment, any other path
\* must equal the leading segments, and with pathMatch 'full' it must equal
\* all of them
consumed(route, segments) ==
    IF route.path = "**" THEN Len(segments)
    ELSE IF Len(pathParts(route)) > Len(segments) THEN -1
    ELSE IF route.pathMatch = "full" /\ Len(segments) > Len(pathParts(route)) THEN -1
    ELSE IF \A i \in 1..Len(pathParts(route)) : pathParts(route)[i] = segments[i]
         THEN Len(pathParts(route))
    ELSE -1

\* a redirect applies when its path matches; a component route of this
\* table has no children, so it applies only when no segment is left over
applies(route, segments) ==
    /\ consumed(route, segments) >= 0
    /\ route.redirectTo = None => consumed(route, segments) = Len(segments)

\* the routes are tried in the order of the table: the index of the first
\* that applies, from index i on, 0 when none does
RECURSIVE matchFrom(_, _)
matchFrom(i, segments) ==
    IF i > Len(routes) THEN 0
    ELSE IF applies(routes[i], segments) THEN i
    ELSE matchFrom(i + 1, segments)

matchRoute(segments) == matchFrom(1, segments)

\* a relative redirect replaces the consumed segments by its target
redirect(route, segments) ==
    route.redirectTo \o SubSeq(segments, consumed(route, segments) + 1, Len(segments))

segmentNames == {"intro", "sequence", "dashboard", "Intro", "profile", "x"}

urls == UNION { [1..n -> segmentNames] : n \in 0..MaxSegments }

\* a navigation starts (the initial one, a link, router.navigate); one
\* that starts while another is being resolved supersedes it
navigateByUrl ==
    \E url \in urls :
        /\ requestedUrl' = url
        /\ currentUrl' = url
        /\ navigating' = TRUE
        /\ UNCHANGED activated
        /\ routeOnly

\* the first route that applies is a redirect: the URL is rewritten and
\* matched again
applyRedirect ==
    /\ navigating
    /\ matchRoute(currentUrl) # 0
    /\ routes[matchRoute(currentUrl)].redirectTo # None
    /\ currentUrl' = redirect(routes[matchRoute(currentUrl)], currentUrl)
    /\ UNCHANGED <<requestedUrl, navigating, activated>>
    /\ routeOnly

\* the first route that applies names a component: it is activated in the
\* outlet and the navigation ends
activateRoute ==
    /\ navigating
    /\ matchRoute(currentUrl) # 0
    /\ routes[matchRoute(currentUrl)].component # None
    /\ activated' = routes[matchRoute(currentUrl)].component
    /\ navigating' = FALSE
    /\ UNCHANGED <<requestedUrl, currentUrl>>
    /\ routeOnly

InitRouting ==
    /\ routeIdle
    /\ histIdle
    /\ discIdle
    /\ dashIdle
    /\ seqIdle

NextRouting ==
    \/ navigateByUrl
    \/ applyRedirect
    \/ activateRoute

SpecRouting == InitRouting /\ [][NextRouting]_vars

----------------------------------------------------------------------------
(* SequenceComponent: the scroll triggers of the intro sequence.  A slide   *)
(* is what the component reads of its element: whether it holds h1, p or   *)
(* button elements and whether it holds an '.end-btn'.  A trigger is named *)
(* by the initAnimations run that created it, its kind and its slide.      *)

MaxSlides == 2

MaxRuns == 3

MaxFrames == 2

Slide(elements, endBtn) == [elements |-> elements, endBtn |-> endBtn]

slideLists ==
    UNION { [1..n -> { Slide(e, b) : e, b \in BOOLEAN }] : n \in 0..MaxSlides }

\* ScrollTrigger.create(...) of the given run
Trigger(run, kind, slide) == [run |-> run, kind |-> kind, slide |-> slide]

elementsOf(list) == { list[i] : i \in 1..Len(list) }

ClearTriggersKeepsList(list, registry) ==
    [triggers |-> list, scrollTriggers |-> registry]

\* clearTriggers: kill every registered trigger, kill the component's own,
\* empty the list; a killed trigger leaves the registry
clearTriggers(list, registry) ==
    [triggers |-> <<>>,
     scrollTriggers |-> (registry \ registry) \ elementsOf(list)]

\* slides.forEach((slide, i) => { if (i > 0) createSlideTrigger(...) }),
\* from the 0-based slide i on: a slide without elements gets no trigger
RECURSIVE createSlideTriggers(_, _, _)
createSlideTriggers(slideList, i, run) ==
    IF i > Len(slideList) - 1 THEN <<>>
    ELSE (IF i > 0 /\ slideList[i + 1].elements
          THEN <<Trigger(run, "slide", i)>> ELSE <<>>)
         \o createSlideTriggers(slideList, i + 1, run)

\* the end button trigger of the last slide, when it holds an '.end-btn'
createEndButtonTrigger(slideList, run) ==
    IF slideList[Len(slideList)].endBtn
    THEN <<Trigger(run, "end", Len(slideList) - 1)>> ELSE <<>>

\* initAnimations as run number run: the component's list, the registry and
\* whether the 120 ms refresh timer was started
initAnimations(list, registry, slideList, run) ==
    LET cleared == clearTriggers(list, registry)
        created == <<Trigger(run, "main", 0)>>
                   \o createSlideTriggers(slideList, 0, run)
                   \o createEndButtonTrigger(slideList, run)
    IN  IF Len(slideList) = 0
        THEN [triggers |-> cleared.triggers,
              scrollTriggers |-> cleared.scrollTriggers,
              refresh |-> FALSE]
        ELSE [triggers |-> cleared.triggers \o created,
              scrollTriggers |-> cleared.scrollTriggers \cup elementsOf(created),
              refresh |-> TRUE]

\* ngAfterViewInit: request the first frame, subscribe to slides.changes
sequenceNgAfterViewInit ==
    /\ ~subscribed
    /\ subscribed' = TRUE
    /\ sequenceFrames' = sequenceFrames + 1
    /\ UNCHANGED <<slides, triggers, scrollTriggers, runs, refreshTimers, destroyed>>
    /\ seqOnly

\* the slide list changes: slides.changes emits and a frame is requested
slidesChanges ==
    \E slideList \in slideLists \ {slides} :
        /\ subscribed
        /\ ~destroyed
        /\ sequenceFrames < MaxFrames
        /\ slides' = slideList
        /\ sequenceFrames' = sequenceFrames + 1
        /\ UNCHANGED <<triggers, scrollTriggers, runs, refreshTimers, subscribed,
                       destroyed>>
        /\ seqOnly

\* a requested frame runs initAnimations (also after ngOnDestroy: the
\* request is never cancelled)
initAnimationsFrame ==
    /\ sequenceFrames > 0
    /\ runs < MaxRuns
    /\ sequenceFrames' = sequenceFrames - 1
    /\ runs' = runs + 1
    /\ triggers' = initAnimations(triggers, scrollTriggers, slides, runs').triggers
    /\ scrollTriggers' =
           initAnimations(triggers, scrollTriggers, slides, runs').scrollTriggers
    /\ refreshTimers' =
           IF initAnimations(triggers, scrollTriggers, slides, runs').refresh
           THEN refreshTimers + 1 ELSE refreshTimers
    /\ UNCHANGED <<slides, subscribed, destroyed>>
    /\ seqOnly

\* setTimeout(() => ScrollTrigger.refresh(), 120) fires
refreshTimerFires ==
    /\ refreshTimers > 0
    /\ refreshTimers' = refreshTimers - 1
    /\ UNCHANGED <<slides, triggers, scrollTriggers, runs, sequenceFrames,
                   subscribed, destroyed>>
    /\ seqOnly

sequenceNgOnDestroy ==
    /\ subscribed
    /\ ~destroyed
    /\ destroyed' = TRUE
    /\ triggers' = clearTriggers(triggers, scrollTriggers).triggers
    /\ scrollTriggers' = clearTriggers(triggers, scrollTriggers).scrollTriggers
    /\ UNCHANGED <<slides, runs, sequenceFrames, refreshTimers, subscribed>>
    /\ seqOnly

InitSequence ==
    /\ slides \in slideLists
    /\ triggers = <<>>
    /\ scrollTriggers = {}
    /\ runs = 0
    /\ sequenceFrames = 0
    /\ refreshTimers = 0
    /\ subscribed = FALSE
    /\ destroyed = FALSE
    /\ histIdle
    /\ discIdle
    /\ dashIdle
    /\ routeIdle

NextSequence ==
    \/ sequenceNgAfterViewInit
    \/ slidesChanges
    \/ initAnimationsFrame
    \/ refreshTimerFires
    \/ sequenceNgOnDestroy

SpecSequence == InitSequence /\ [][NextSequence]_vars

----------------------------------------------------------------------------
(* Claims about HistoryComponent                                           *)

\* the search term applyFilter works with
appliedTerm == trim(toLowerCase(searchQuery))

\* the object of history with identity ref
postOf(ref) == history[CHOOSE i \in 1..Len(history) : history[i].ref = ref]

storageAbsentOrMalformed ==
    \/ postHistory = None
    \/ ~JSONparse(postHistory[1]).ok

expectedSampleTitle(i) ==
    <<"S","a","m","p","l","e"," ","P","o","s","t"," ">>
    \o (IF i = 10 THEN <<"1", "0">> ELSE <<digitChars[i + 1]>>)

\* C1: after ngOnInit with the 'postHistory' key absent or holding a text that
\* fails to parse as JSON, history and filteredHistory each hold exactly the
\* ten placeholders 'Sample Post 1' .. 'Sample Post 10' and no error escaped.
C1_PlaceholderFallback ==
    (histCall.op = "ngOnInit" /\ storageAbsentOrMalformed) =>
        /\ ~histCall.threw
        /\ Len(history) = 10
        /\ \A i \in 1..10 : history[i].title = Some(expectedSampleTitle(i))
        /\ \A i, j \in 1..10 : history[i].ref = history[j].ref => i = j
        /\ filteredHistory = Refs(history)

C1_Witness ==
    /\ histCall.op = "ngOnInit"
    /\ postHistory # None
    /\ Len(postHistory[1]) > 0
    /\ ~JSONparse(postHistory[1]).ok
    /\ Len(history) = 10
    /\ Len(filteredHistory) = 10

\* one of the post's own fields contains the term, case-insensitively
someFieldContains(post, q) ==
    \/ includes(toLowerCase(OrEmpty(post.title)), q)
    \/ includes(toLowerCase(OrEmpty(post.description)), q)
    \/ includes(toLowerCase(OrEmpty(post.caption)), q)
    \/ \E k \in 1..Len(OrEmpty(post.tags)) :
           includes(toLowerCase(OrEmpty(post.tags)[k]), q)

\* C2: after applyFilter with a non-empty search term q, every entry of
\* filteredHistory has q as a case-insensitive substring of its title, its
\* description, its caption or one of its tags.
C2_OnlyFieldMatches ==
    (histCall.op = "applyFilter" /\ Len(appliedTerm) > 0) =>
        \A k \in 1..Len(filteredHistory) :
            someFieldContains(postOf(filteredHistory[k]), appliedTerm)

\* C3: a confirmed deletePost(index) with a valid index removes from history
\* exactly the object shown at filteredHistory[index]: history gets one
\* shorter, the other entries keep their order, and the deleted object is
\* afterwards in neither history nor filteredHistory.
C3_DeleteRemovesSelected ==
    [][ (histCall'.op = "deletePost" /\ histCall'.confirmed) =>
          LET r == filteredHistory[histCall'.index + 1]
              n == Len(history)
          IN  /\ Len(history') = n - 1
              /\ \E k \in 1..n :
                     /\ history[k].ref = r
                     /\ history' = SubSeq(history, 1, k - 1) \o SubSeq(history, k + 1, n)
              /\ \A j \in 1..Len(history') : history'[j].ref # r
              /\ \A j \in 1..Len(filteredHistory') : filteredHistory'[j] # r
      ]_vars

\* a confirmed delete of a post that is not the first of history, chosen in a
\* filtered view that hides some posts
C3_Witness ==
    /\ histCall.op = "deletePost"
    /\ histCall.confirmed
    /\ Len(appliedTerm) > 0
    /\ Len(history) > 0
    /\ history[1].ref = 1
    /\ Len(filteredHistory) < Len(history)

\* C4: a confirmed deletePost leaves under 'postHistory' the JSON encoding of
\* the whole in-memory history, and a re-initialisation after a delete loads
\* the list that was in memory (same records, same order, none lost), also
\* when that list is empty.
C4_StorageRoundTrip ==
    [][ /\ (histCall'.op = "deletePost" /\ histCall'.confirmed) =>
              postHistory' = Some(JSONstringify(history'))
        /\ (deletes > 0 /\ histCall'.op = "ngOnInit") =>
              /\ ~histCall'.threw
              /\ Contents(history') = Contents(history)
      ]_vars

\* a re-initialisation after the last post was deleted
C4_Witness ==
    /\ histCall.op = "ngOnInit"
    /\ deletes > 0
    /\ Len(history) = 0
    /\ postHistory = Some(<<Tok("["), Tok("]")>>)

\* C9: applyFilter with an empty search term (nothing but white space) puts
\* every entry of history, in order, into filteredHistory and leaves history
\* unchanged.
C9_EmptyTermGivesAll ==
    [][ (histCall'.op = "applyFilter" /\ Len(trim(searchQuery)) = 0) =>
          /\ filteredHistory' = Refs(history)
          /\ history' = history
      ]_vars

\* an empty term applied to a view that a term had narrowed
C9_Witness ==
    /\ histCall.op = "applyFilter"
    /\ searchQuery = <<" ">>
    /\ Len(history) > 1
    /\ filteredHistory = Refs(history)
    /\ deletes > 0

\* C11: no handler raises an error when the element it looks up is missing
\* or the collection it works on is empty; for HistoryComponent: viewPost and
\* deletePost on an empty post list return without an error.
C11_NoHandlerThrows ==
    (histCall.op \in {"viewPost", "deletePost"} /\ Len(filteredHistory) = 0) =>
        ~histCall.threw

\* the 0-based positions in list of the objects a view holds
positionsIn(list, view) == [i \in 1..Len(view) |-> indexOf(list, view[i])]

\* every object of the view is an object of the list, in the list's order
subsequenceOf(list, view) ==
    LET at == positionsIn(list, view)
    IN  /\ \A i \in 1..Len(view) : at[i] >= 0
        /\ \A i \in 1..(Len(view) - 1) : at[i] < at[i + 1]

\* C16: in every reachable state every entry of filteredHistory is a record
\* of history and the entries keep history's relative order; consequently a
\* confirmed deletePost removes the selected record from history and no other.
C16_FilteredWithinHistory ==
    [][ /\ subsequenceOf(history, filteredHistory)
        /\ subsequenceOf(history', filteredHistory')
        /\ (histCall'.op = "deletePost" /\ histCall'.confirmed) =>
               /\ Len(history') = Len(history) - 1
               /\ \A r \in 1..Len(history) :
                      history[r].ref # filteredHistory[histCall'.index + 1] =>
                          indexOf(history', history[r].ref) >= 0 ]_vars

C16_Witness ==
    /\ histCall.op = "deletePost"
    /\ histCall.confirmed
    /\ Len(filteredHistory) > 0
    /\ Len(filteredHistory) < Len(history)

----------------------------------------------------------------------------
(* Claims about DiscoverComponent                                          *)

discoverFields == {"title", "description", "author", "likes", "tags", "image"}

\* C8: likePost(i) for a valid index i adds exactly one to the likes of post
\* i and changes nothing else: not another post, not another field of post
\* i, not the length or the order of the list.
C8_LikeIncrementsOne ==
    [][ discCall'.op = "likePost" =>
          LET i == discCall'.index + 1
          IN  /\ Len(discoverPosts') = Len(discoverPosts)
              /\ discoverPosts'[i].likes = discoverPosts[i].likes + 1
              /\ \A f \in discoverFields \ {"likes"} :
                     discoverPosts'[i][f] = discoverPosts[i][f]
              /\ \A j \in 1..Len(discoverPosts) :
                     j # i => discoverPosts'[j] = discoverPosts[j]
      ]_vars

\* the last post liked after another like
C8_Witness ==
    /\ discCall.op = "likePost"
    /\ discCall.index = 9
    /\ likeClicks >= 2
    /\ Len(discoverPosts) = 10

----------------------------------------------------------------------------
(* Claims about DashboardComponent                                         *)

\* C5: from view initialisation on, whatever modal toggles, modal closes,
\* navigation clicks and logouts happen, the body carries overflow 'hidden'
\* in every state in which isLoggedIn is false; the lock is off only while
\* isLoggedIn is true.
C5_LockedUntilLogin ==
    viewReady => (bodyOverflow = "hidden" <=> ~isLoggedIn)

\* logged out again after a login had removed the lock
C5_Witness ==
    /\ viewReady
    /\ dashCall.op = "handleLogout"
    /\ ~isLoggedIn
    /\ bodyOverflow = "hidden"
    /\ recalcTimers > 0

\* C6: whenever a modal is open (showProfile, showLogin or showSignup), the
\* body carries overflow 'hidden'.
C6_ModalLocksScroll ==
    (showProfile \/ showLogin \/ showSignup) => bodyOverflow = "hidden"

\* the value of the modal flag named by a call log
flagNamed(name) ==
    CASE name = "profile" -> showProfile
      [] name = "login" -> showLogin
      [] name = "signup" -> showSignup

\* C7: calling toggleProfile, toggleLogin or toggleSignup twice in a row
\* returns its flag to the value it had before the first call, from either
\* starting value.
C7_ToggleTwiceRestores ==
    dashCall.twice => flagNamed(dashCall.toggled) = dashCall.before2

\* toggleLogin called twice on an open login modal
C7_Witness ==
    /\ dashCall.op = "toggleLogin"
    /\ dashCall.twice
    /\ dashCall.before2
    /\ showLogin

\* the sections, by 0-based position in sectionOffsets, whose recorded top is
\* at most scrollY + innerHeight / 3
qualifying(offsets, scrollY, innerHeight) ==
    { i \in 0..(Len(offsets) - 1) : 3 * offsets[i + 1].top <= 3 * scrollY + innerHeight }

greatest(S) == CHOOSE i \in S : \A j \in S : j <= i

offsetsInNavOrder ==
    \/ sectionOffsets = <<>>
    \/ [i \in 1..Len(sectionOffsets) |-> sectionOffsets[i].id]
           = <<"hero", "create", "history", "discover">>

\* C10: a scroll processed while the user is logged in and no click scroll
\* is in progress sets activeIndex to the index of the last section, in nav
\* order hero, create, history, discover, whose recorded top is at most
\* scrollY + innerHeight / 3, and leaves activeIndex alone when there is none.
C10_IndicatorFollowsScroll ==
    [][ (dashCall'.op = "handleScroll" /\ isLoggedIn /\ ~isClickScrolling) =>
          LET q == qualifying(sectionOffsets, dashCall'.scrollY, dashCall'.innerHeight)
          IN  /\ offsetsInNavOrder
              /\ activeIndex' = IF q = {} THEN activeIndex ELSE greatest(q)
      ]_vars

\* the scroll position at which 'create' just qualifies and later sections
\* do not, processed while another tab was active
C10_Witness ==
    /\ dashCall.op = "handleScroll"
    /\ dashCall.scrollY = 800
    /\ isLoggedIn
    /\ ~isClickScrolling
    /\ Len(sectionOffsets) = 4
    /\ sectionOffsets[2].top = 1000
    /\ activeIndex = 1
    /\ indicatorAt = 1

scrollEvent == {"onWindowScroll:scheduled", "onWindowScroll:ignored"}

\* C13: scroll handling is throttled: at most one handleScroll frame callback
\* is pending at any time, scrollPending is true exactly while one is pending,
\* and a scroll event that arrives while one is pending schedules nothing.
C13_ScrollThrottled ==
    [][ /\ frameCallbacks' <= 1
        /\ scrollPending' <=> frameCallbacks' = 1
        /\ (scrollPending /\ dashCall'.op \in scrollEvent) =>
               /\ frameCallbacks' = frameCallbacks
               /\ dashCall'.op = "onWindowScroll:ignored" ]_vars

C13_Witness ==
    /\ dashCall.op = "onWindowScroll:ignored"
    /\ isLoggedIn
    /\ ~isClickScrolling
    /\ scrollPending
    /\ frameCallbacks = 1

\* C14: scroll tracking never changes activeIndex while isClickScrolling is
\* true or while logged out: a handleScroll frame callback that runs in such a
\* state leaves activeIndex as it was, so the activeIndex set by a nav click
\* is not overwritten by a frame callback scheduled before the click.
C14_NoTrackingWhileLocked ==
    [][ (dashCall'.op = "handleScroll" /\ (isClickScrolling \/ ~isLoggedIn)) =>
            activeIndex' = activeIndex ]_vars

\* C15: isClickScrolling is true whenever an unlock timer of navigateToSection
\* is outstanding: it stays true until the timer of the latest scroll fires,
\* also when earlier timers fire in between.
C15_LockedWhileTimerOutstanding ==
    unlockTimers > 0 => isClickScrolling

----------------------------------------------------------------------------
(* Claims about AppRoutingModule                                           *)

viewOf(url) ==
    IF url = <<"sequence">> THEN "SequenceComponent"
    ELSE IF url = <<"dashboard">> THEN "DashboardComponent"
    ELSE "IntroComponent"

\* C12: the paths 'intro', 'sequence' and 'dashboard' resolve each to its own
\* view, and every other path, the empty path included, resolves to the intro
\* view: a navigation being resolved always has a route that applies, and
\* the component activated when it ends is the view of the requested path.
C12_RoutesResolve ==
    /\ navigating => matchRoute(currentUrl) # 0
    /\ (~navigating /\ activated # None) => activated = Some(viewOf(requestedUrl))

C12_Witness ==
    /\ ~navigating
    /\ requestedUrl = <<"dashboard", "x">>
    /\ activated = Some("IntroComponent")

----------------------------------------------------------------------------
(* Claims about SequenceComponent                                          *)

\* C17: each run of initAnimations first kills every scroll trigger created
\* by earlier runs: the component's triggers list holds only triggers of the
\* latest run, each of them once, no trigger of an earlier run is still
\* registered, and the list never grows beyond one run's triggers.
C17_OnlyLatestRunTriggers ==
    /\ \A i \in 1..Len(triggers) : triggers[i].run = runs
    /\ \A i, j \in 1..Len(triggers) : triggers[i] = triggers[j] => i = j
    /\ \A t \in scrollTriggers : t.run = runs
    /\ Len(triggers) <= MaxSlides + 1

C17_Witness ==
    /\ runs > 1
    /\ ~destroyed
    /\ Len(triggers) = 3
    /\ scrollTriggers = elementsOf(triggers)

====
